---- MODULE Spec2Model ----
(***************************************************************************)
(* pyseasonal.utils.config: load_config and its two helpers, _build_paths  *)
(* and _check_paths_exist.                                                 *)
(*                                                                         *)
(* Python strings are sequences of one-character strings, so that          *)
(* concatenation (base_path + path) is \o and the substring test           *)
(* ("filename" in key) is a search.  A Python value is a tagged record:    *)
(* a str, a dict (an ordered sequence of key/value entries, as dicts keep  *)
(* insertion order) or None.                                               *)
(***************************************************************************)
EXTENDS Naturals, Sequences, FiniteSets

VARIABLES
    file,       \* what open()/yaml.safe_load find at config_path
    env,        \* os.environ: a function from the names that are set
    fs,         \* the paths that exist on disk
    pc,         \* position in load_config
    config,     \* the local `config` of load_config (paths_dict is config["paths"])
    base_path,  \* the local `base_path` of _build_paths
    idx,        \* position of the running for-loop in paths_dict.items()
    ret,        \* what _check_paths_exist returned
    status,     \* "running", "returned" or "raised"
    result,     \* the value load_config returned
    exc,        \* the exception load_config raised
    built,      \* history: the keys _build_paths rewrote, in order
    checked     \* history: the arguments of os.path.exists, in order

vars == <<file, env, fs, pc, config, base_path, idx, ret, status, result, exc,
          built, checked>>

---------------------------------------------------------------------------
(* Bounds *)

\* the most entries a flat PathGroup of the input document holds
MaxEntries == 2

---------------------------------------------------------------------------
(* Strings *)

EmptyStr == << >>
S_filename == <<"f","i","l","e","n","a","m","e">>
S_home == <<"h","o","m","e">>
S_dir_output == <<"d","i","r","_","o","u","t","p","u","t">>
S_data_path == <<"d","a","t","a","_","p","a","t","h">>
S_output_filename == <<"o","u","t","p","u","t","_">> \o S_filename
S_paths == <<"p","a","t","h","s">>
S_domain == <<"d","o","m","a","i","n">>
S_models == <<"m","o","d","e","l","s">>
S_medcof == <<"m","e","d","c","o","f">>
S_ecmwf == <<"e","c","m","w","f">>
S_lustre == <<"l","u","s","t","r","e">>
S_pticlima == <<"p","t","i","c","l","i","m","a">>
S_nope == <<"n","o","p","e">>
S_x == <<"/","x">>
S_d == <<"/","d">>

\* Python's `sub in s` on two strings
Contains(sub, s) ==
    \E n \in 0..Len(s) :
        /\ n + Len(sub) <= Len(s)
        /\ SubSeq(s, n + 1, n + Len(sub)) = sub

---------------------------------------------------------------------------
(* Python values *)

None == [kind |-> "none", val |-> << >>]
Str(s) == [kind |-> "str", val |-> s]
Dict(es) == [kind |-> "dict", val |-> es]
Entry(k, v) == [key |-> k, val |-> v]

IsStr(v) == v.kind = "str"
IsDict(v) == v.kind = "dict"

\* the keys of a dict, in iteration order
Keys(d) == [n \in 1..Len(d.val) |-> d.val[n].key]
HasKey(d, k) == \E n \in 1..Len(d.val) : d.val[n].key = k
\* d[k] for a key that is present
Get(d, k) == d.val[CHOOSE n \in 1..Len(d.val) : d.val[n].key = k].val
\* d.get(k, default)
GetOr(d, k, default) == IF HasKey(d, k) THEN Get(d, k) ELSE default
\* d[k] = v: an existing key keeps its place, a new one goes last
Put(d, k, v) ==
    IF HasKey(d, k)
    THEN Dict([n \in 1..Len(d.val) |->
                 IF d.val[n].key = k THEN Entry(k, v) ELSE d.val[n]])
    ELSE Dict(Append(d.val, Entry(k, v)))

NoExc == [type |-> "", key |-> EmptyStr, path |-> EmptyStr]
Raise(t, k, p) == [type |-> t, key |-> k, path |-> p]

---------------------------------------------------------------------------
(* The inputs: the document at config_path, the environment, the disk *)

\* values a path entry of the document may hold
ValPool == {EmptyStr, S_x, S_d}
\* keys a flat PathGroup may hold
KeyPool == {S_home, S_dir_output, S_data_path, S_output_filename}
\* the paths that may exist on disk (os.path.exists("") is always False)
FsUniverse == {S_x, S_d, S_x \o S_d}

DistinctKeys(es) ==
    \A m, n \in 1..Len(es) : es[m].key = es[n].key => m = n

\* flat mode: `paths` maps path names to strings
FlatGroups ==
    UNION {{es \in [1..n -> {Entry(k, Str(v)) : k \in KeyPool, v \in ValPool}] :
              DistinctKeys(es)} : n \in 0..MaxEntries}

\* store-selection mode: `paths` maps store identifiers to PathGroups
StoreGroups == {<<Entry(S_home, Str(v))>> : v \in {S_x, S_d}}
StoreMaps ==
    UNION {{es \in [1..n -> {Entry(k, Dict(g)) : k \in {S_lustre, S_pticlima},
                                                g \in StoreGroups}] :
              DistinctKeys(es)} : n \in 1..Cardinality({S_lustre, S_pticlima})}

\* the parsed documents: mappings with and without a `paths` entry
Documents ==
    {Dict(<<Entry(S_domain, Str(S_medcof)), Entry(S_paths, Dict(g))>>) :
        g \in FlatGroups \cup StoreMaps}
    \cup {Dict(<<Entry(S_paths, Dict(g)), Entry(S_models, Str(S_ecmwf))>>) :
        g \in FlatGroups}
    \cup {Dict(<<Entry(S_domain, Str(S_medcof))>>), Dict(<< >>)}

\* what is at config_path: nothing, text that is not YAML, an empty document
\* (safe_load gives None) or a mapping
Files ==
    {[state |-> s, parsed |-> None] : s \in {"missing", "malformed", "ok"}}
    \cup {[state |-> "ok", parsed |-> d] : d \in Documents}

\* os.environ restricted to the base-directory override DATA_DIR and a
\* store selector, here STORE (config.py reads DATA_DIR alone); each is
\* unset, or set to one of two strings
Environments ==
    {[n \in names |-> IF n = "DATA_DIR" THEN dd ELSE st] :
        names \in SUBSET {"DATA_DIR", "STORE"},
        dd \in {EmptyStr, S_x}, st \in {S_nope, S_pticlima}}

---------------------------------------------------------------------------
(* _build_paths, src/pyseasonal/utils/config.py:6-16 *)

\* os.getenv(name, default)
getenv(name, default) ==
    IF name \in DOMAIN env THEN Str(env[name]) ELSE default

\* line 8: base_path = os.getenv("DATA_DIR", paths_dict.get("home", ""))
build_base_path(paths_dict) ==
    getenv("DATA_DIR", GetOr(paths_dict, S_home, Str(EmptyStr)))

\* mutant of build_skips: `dir_output` is not among the keys left alone
build_skips_without_dir_output(key) ==
    key = S_home \/ Contains(S_filename, key)

\* line 11: the keys the loop leaves alone
build_skips(key) ==
    key = S_home \/ key = S_dir_output \/ Contains(S_filename, key)

\* Python's a + b is defined on two strings; str + dict raises TypeError
CanAdd(a, b) == IsStr(a) /\ IsStr(b)
Add(a, b) == Str(a.val \o b.val)

\* mutant of build_value: the fragment is written back without the base
build_value_raw(base, path) == path

\* line 14: the value written back for a key that is not skipped
build_value(base, path) == Add(base, path)

---------------------------------------------------------------------------
(* _check_paths_exist, src/pyseasonal/utils/config.py:19-31 *)

\* mutant of check_skips: the skip list of _build_paths copied over, so that
\* `dir_output` is never checked
check_skips_dir_output(key, path) ==
    \/ Contains(S_filename, key)
    \/ key = S_dir_output
    \/ (key = S_home /\ IsStr(path) /\ path.val = EmptyStr)

\* mutant of check_skips: `home` is skipped whatever its value
check_skips_any_home(key, path) ==
    Contains(S_filename, key) \/ key = S_home

\* mutant of check_skips: an empty `home` is checked like any other entry
check_skips_filename_only(key, path) ==
    Contains(S_filename, key)

\* lines 22-26: the entries the loop does not check
check_skips(key, path) ==
    \/ Contains(S_filename, key)
    \/ (key = S_home /\ IsStr(path) /\ path.val = EmptyStr)

\* line 28: os.path.exists(path) for a string
path_exists(path) == path \in fs

\* mutant of on_missing: the validator reports a missing path by returning
\* False instead of raising
on_missing_returns_false(key, path) ==
    [raises |-> FALSE, exc |-> NoExc, ret |-> FALSE]

\* line 29: what happens at an entry whose path does not exist
on_missing(key, path) ==
    [raises |-> TRUE, exc |-> Raise("FileNotFoundError", key, path), ret |-> FALSE]

\* line 31: the value returned after the loop
check_return_value == TRUE

---------------------------------------------------------------------------
(* load_config, src/pyseasonal/utils/config.py:34-45 *)

\* mutant of lookup_paths: config.get("paths", {}) in place of config["paths"]
lookup_paths_with_default(cfg) ==
    IF HasKey(cfg, S_paths)
    THEN [raises |-> FALSE, val |-> Get(cfg, S_paths)]
    ELSE [raises |-> FALSE, val |-> Dict(<< >>)]

\* lines 40 and 42: config["paths"] on a dict; a missing key raises KeyError
lookup_paths(cfg) ==
    IF HasKey(cfg, S_paths)
    THEN [raises |-> FALSE, val |-> Get(cfg, S_paths)]
    ELSE [raises |-> TRUE, val |-> None]

\* mutant of store_paths: the document is replaced by one holding `paths` alone
store_paths_alone(cfg, paths_dict) == Dict(<<Entry(S_paths, paths_dict)>>)

\* line 40, assignment: config["paths"] = ...
store_paths(cfg, paths_dict) == Put(cfg, S_paths, paths_dict)

\* lines 42-45: the value load_config returns once the validator has returned
return_value(valid, cfg) == IF valid THEN cfg ELSE Dict(<< >>)

---------------------------------------------------------------------------
(* The state machine: one call of load_config *)

Init ==
    /\ file \in Files
    /\ env \in Environments
    /\ fs \in SUBSET FsUniverse
    /\ pc = "open"
    /\ config = None
    /\ base_path = None
    /\ idx = 0
    /\ ret = FALSE
    /\ status = "running"
    /\ result = None
    /\ exc = NoExc
    /\ built = << >>
    /\ checked = << >>

\* an exception leaves load_config: nothing is returned
Raised(e) ==
    /\ pc' = "done"
    /\ status' = "raised"
    /\ exc' = e
    /\ UNCHANGED <<file, env, fs, result, built>>

\* lines 36-38: open(config_path) and yaml.safe_load(file)
load_config_open ==
    /\ pc = "open"
    /\ IF file.state = "missing"
       THEN /\ Raised(Raise("FileNotFoundError", EmptyStr, EmptyStr))
            /\ UNCHANGED <<config, base_path, idx, ret, checked>>
       ELSE IF file.state = "malformed"
       THEN /\ Raised(Raise("YAMLError", EmptyStr, EmptyStr))
            /\ UNCHANGED <<config, base_path, idx, ret, checked>>
       ELSE /\ config' = file.parsed
            /\ pc' = "lookup"
            /\ UNCHANGED <<file, env, fs, base_path, idx, ret, status, result,
                           exc, built, checked>>

\* line 40: config["paths"] is evaluated and _build_paths entered (line 8)
build_paths_enter ==
    /\ pc = "lookup"
    /\ IF ~IsDict(config)
       THEN /\ Raised(Raise("TypeError", EmptyStr, EmptyStr))
            /\ UNCHANGED <<config, base_path, idx, ret, checked>>
       ELSE IF lookup_paths(config).raises
       THEN /\ Raised(Raise("KeyError", S_paths, EmptyStr))
            /\ UNCHANGED <<config, base_path, idx, ret, checked>>
       ELSE /\ base_path' = build_base_path(lookup_paths(config).val)
            /\ idx' = 1
            /\ pc' = "build"
            /\ UNCHANGED <<file, env, fs, config, ret, status, result, exc,
                           built, checked>>

\* lines 10-14: one iteration of the loop of _build_paths; paths_dict is the
\* dict held in config["paths"], so the assignment shows in config at once
build_paths_step ==
    /\ pc = "build"
    /\ idx <= Len(lookup_paths(config).val.val)
    /\ LET paths_dict == lookup_paths(config).val
           key == paths_dict.val[idx].key
           path == paths_dict.val[idx].val
       IN IF build_skips(key)
          THEN /\ idx' = idx + 1
               /\ UNCHANGED <<file, env, fs, pc, config, base_path, ret, status,
                              result, exc, built, checked>>
          ELSE IF ~CanAdd(base_path, path)
          THEN /\ Raised(Raise("TypeError", EmptyStr, EmptyStr))
               /\ UNCHANGED <<config, base_path, idx, ret, checked>>
          ELSE /\ config' = Put(config, S_paths,
                                Put(paths_dict, key, build_value(base_path, path)))
               /\ built' = Append(built, key)
               /\ idx' = idx + 1
               /\ UNCHANGED <<file, env, fs, pc, base_path, ret, status, result,
                              exc, checked>>

\* line 16 and the assignment of line 40; then _check_paths_exist is entered
build_paths_return ==
    /\ pc = "build"
    /\ idx > Len(lookup_paths(config).val.val)
    /\ config' = store_paths(config, lookup_paths(config).val)
    /\ idx' = 1
    /\ pc' = "check"
    /\ UNCHANGED <<file, env, fs, base_path, ret, status, result, exc, built,
                   checked>>

\* lines 21-29: one iteration of the loop of _check_paths_exist
check_paths_exist_step ==
    /\ pc = "check"
    /\ idx <= Len(lookup_paths(config).val.val)
    /\ LET paths_dict == lookup_paths(config).val
           key == paths_dict.val[idx].key
           path == paths_dict.val[idx].val
       IN IF check_skips(key, path)
          THEN /\ idx' = idx + 1
               /\ UNCHANGED <<file, env, fs, pc, config, base_path, ret, status,
                              result, exc, built, checked>>
          ELSE IF ~IsStr(path)
          THEN \* os.path.exists(dict): os.stat raises TypeError
               /\ Raised(Raise("TypeError", EmptyStr, EmptyStr))
               /\ UNCHANGED <<config, base_path, idx, ret, checked>>
          ELSE /\ checked' = Append(checked, path.val)
               /\ IF path_exists(path.val)
                  THEN /\ idx' = idx + 1
                       /\ UNCHANGED <<file, env, fs, pc, config, base_path, ret,
                                      status, result, exc, built>>
                  ELSE IF on_missing(key, path.val).raises
                  THEN /\ Raised(on_missing(key, path.val).exc)
                       /\ UNCHANGED <<config, base_path, idx, ret>>
                  ELSE /\ ret' = on_missing(key, path.val).ret
                       /\ pc' = "validated"
                       /\ UNCHANGED <<file, env, fs, config, base_path, idx,
                                      status, result, exc, built>>

\* line 31: the loop of _check_paths_exist ran to its end
check_paths_exist_return ==
    /\ pc = "check"
    /\ idx > Len(lookup_paths(config).val.val)
    /\ ret' = check_return_value
    /\ pc' = "validated"
    /\ UNCHANGED <<file, env, fs, config, base_path, idx, status, result, exc,
                   built, checked>>

\* lines 42-45: return config, or {} had the validator returned a false value
load_config_return ==
    /\ pc = "validated"
    /\ result' = return_value(ret, config)
    /\ status' = "returned"
    /\ pc' = "done"
    /\ UNCHANGED <<file, env, fs, config, base_path, idx, ret, exc, built,
                   checked>>

Next ==
    \/ load_config_open
    \/ build_paths_enter
    \/ build_paths_step
    \/ build_paths_return
    \/ check_paths_exist_step
    \/ check_paths_exist_return
    \/ load_config_return

Spec == Init /\ [][Next]_vars

---------------------------------------------------------------------------
(* Vocabulary of the properties *)

\* the mapping safe_load produced
Doc == file.parsed
HasDoc == file.state = "ok" /\ IsDict(Doc)
HasPathsSection == HasDoc /\ HasKey(Doc, S_paths)
DocPaths == Get(Doc, S_paths)
\* flat mode: every value of `paths` is a string
FlatMode ==
    /\ HasPathsSection
    /\ \A n \in 1..Len(DocPaths.val) : IsStr(DocPaths.val[n].val)
\* store-selection mode: `paths` maps at least one store to a PathGroup
StoreMode ==
    /\ HasPathsSection
    /\ DocPaths.val # << >>
    /\ \A n \in 1..Len(DocPaths.val) : IsDict(DocPaths.val[n].val)

\* an entry validation passes over: a filename key, or an empty `home`
Exempt(e) ==
    \/ Contains(S_filename, e.key)
    \/ (e.key = S_home /\ IsStr(e.val) /\ e.val.val = EmptyStr)
\* an entry expansion leaves as it is
Unexpanded(e) ==
    e.key \in {S_home, S_dir_output} \/ Contains(S_filename, e.key)

\* the string values of the non-exempt entries among the first n, in order
RECURSIVE NonExemptValues(_, _)
NonExemptValues(es, n) ==
    IF n = 0 THEN << >>
    ELSE IF Exempt(es[n]) THEN NonExemptValues(es, n - 1)
    ELSE Append(NonExemptValues(es, n - 1), es[n].val.val)

\* _build_paths has returned
BuildReturned == pc \in {"check", "validated"} \/ status = "returned"
\* the PathGroup held in config["paths"]
CurPaths == Get(config, S_paths).val

---------------------------------------------------------------------------
(* C1 *)

\* C1: after a successful return of load_config, every entry of the returned
\* `paths` whose key does not contain "filename" and which is not an empty
\* `home` holds a string naming a path that exists on disk, and that path was
\* handed to os.path.exists during the call.
C1_ResolvedPathsExist ==
    status = "returned" =>
        /\ IsDict(result) /\ HasKey(result, S_paths)
        /\ LET es == Get(result, S_paths).val
           IN \A n \in 1..Len(es) :
                ~Exempt(es[n]) =>
                    /\ IsStr(es[n].val)
                    /\ es[n].val.val \in fs
                    /\ \E m \in 1..Len(checked) : checked[m] = es[n].val.val

\* a load that succeeded on a group with an expanded entry and a `dir_output`
C1_Witness ==
    /\ status = "returned"
    /\ built # << >>
    /\ HasKey(Get(result, S_paths), S_dir_output)
    /\ Len(checked) >= 2

---------------------------------------------------------------------------
(* C2 *)

\* C2: load_config never returns an empty or partially resolved mapping in
\* place of an error.  The validator hands back True or raises, so line 45
\* (return {}) is never taken: a finished call either raised and returned
\* nothing, or returned the document itself, non-empty, with every entry that
\* is to be expanded expanded and every non-exempt entry checked and found.
C2_ReturnsValidatedOrRaises ==
    /\ pc = "validated" => ret = TRUE
    /\ pc = "done" =>
        \/ status = "raised" /\ exc # NoExc /\ result = None
        \/ /\ status = "returned" /\ exc = NoExc
           /\ IsDict(result) /\ result.val # << >> /\ result = config
           /\ HasKey(result, S_paths)
           /\ LET es == Get(result, S_paths).val
              IN /\ checked = NonExemptValues(es, Len(es))
                 /\ \A m \in 1..Len(checked) : checked[m] \in fs
                 /\ built = SelectSeq(Keys(Get(result, S_paths)),
                                      LAMBDA k : ~Unexpanded([key |-> k]))

\* a load that fails at a missing path after an entry was already expanded:
\* the call raises and hands back nothing
C2_Witness ==
    /\ pc = "done"
    /\ status = "raised"
    /\ exc.type = "FileNotFoundError"
    /\ built # << >>
    /\ result = None

---------------------------------------------------------------------------
(* C3 *)

\* C3: _build_paths returns a mapping with the keys of its argument, in the
\* same order, in which `home`, `dir_output` and every key containing
\* "filename" keep their values and every other key holds the base directory
\* concatenated with its original value, character for character.
C3_BuildPathsExpands ==
    BuildReturned =>
        /\ Keys(Dict(CurPaths)) = Keys(DocPaths)
        /\ \A n \in 1..Len(CurPaths) :
            LET old == DocPaths.val[n]
            IN IF \/ old.key = S_home
                  \/ old.key = S_dir_output
                  \/ Contains(S_filename, old.key)
               THEN CurPaths[n].val = old.val
               ELSE /\ IsStr(CurPaths[n].val)
                    /\ CurPaths[n].val.val = base_path.val \o old.val.val

\* _build_paths has returned a group in which it rewrote one entry under a
\* non-empty base and left `dir_output` alone
C3_Witness ==
    /\ pc = "check"
    /\ base_path.val # EmptyStr
    /\ built # << >>
    /\ HasKey(Dict(CurPaths), S_dir_output)
    /\ Get(Dict(CurPaths), S_dir_output).val # EmptyStr

---------------------------------------------------------------------------
(* C4 *)

\* C4: the base directory of _build_paths is DATA_DIR only when DATA_DIR is
\* set and non-empty; with DATA_DIR unset or set to "" it is the group's
\* `home`, and "" when there is no `home` either.
C4_BaseIsNonEmptyOverrideElseHome ==
    pc = "build" =>
        base_path =
            IF "DATA_DIR" \in DOMAIN env /\ env["DATA_DIR"] # EmptyStr
            THEN Str(env["DATA_DIR"])
            ELSE IF HasKey(DocPaths, S_home) THEN Get(DocPaths, S_home)
            ELSE Str(EmptyStr)

---------------------------------------------------------------------------
(* C5 *)

\* the positions of the non-exempt entries whose path is not on disk
MissingAt(es) ==
    {n \in 1..Len(es) : ~Exempt(es[n]) /\ es[n].val.val \notin fs}

\* C5: _check_paths_exist walks the mapping in iteration order: while it runs,
\* the paths it has asked the disk about are exactly the non-exempt values
\* before its position, each of them present.  When it fails, it fails at the
\* first non-exempt entry whose value is missing, the error carries that
\* entry's key and value, and nothing after that entry was looked at.  A group
\* with exactly one missing non-exempt entry fails naming that key.
C5_FailsAtFirstMissing ==
    /\ pc = "check" =>
        /\ checked = NonExemptValues(CurPaths, idx - 1)
        /\ \A m \in 1..Len(checked) : checked[m] \in fs
    /\ (pc = "done" /\ file.state = "ok" /\ exc.type = "FileNotFoundError") =>
        /\ idx \in MissingAt(CurPaths)
        /\ \A n \in MissingAt(CurPaths) : idx <= n
        /\ exc.key = CurPaths[idx].key
        /\ exc.path = CurPaths[idx].val.val
        /\ checked = NonExemptValues(CurPaths, idx)
    /\ (pc = "done" /\ FlatMode) =>
        \A n \in 1..Len(CurPaths) :
            MissingAt(CurPaths) = {n} =>
                /\ status = "raised"
                /\ exc = Raise("FileNotFoundError", CurPaths[n].key,
                               CurPaths[n].val.val)

\* two non-exempt entries are missing and the validator stopped at the first
C5_Witness ==
    /\ pc = "done"
    /\ FlatMode
    /\ exc.type = "FileNotFoundError"
    /\ idx = 1
    /\ Len(checked) = 1
    /\ Cardinality(MissingAt(CurPaths)) >= 2

---------------------------------------------------------------------------
(* C6 *)

\* C6: for a PathGroup whose entries are all exempt (the key contains
\* "filename", or the key is `home` and the value is ""), and for the empty
\* PathGroup, _check_paths_exist never calls os.path.exists, does not raise
\* and returns True, whatever is on disk.
C6_AllExemptValidates ==
    ( /\ pc \in {"check", "validated"} \/ (pc = "done" /\ FlatMode)
      /\ \A n \in 1..Len(CurPaths) : Exempt(CurPaths[n]) ) =>
        /\ checked = << >>
        /\ status # "raised"
        /\ pc # "check" => ret = TRUE

\* the validator returned True for {home: "", output_filename: ...}
C6_Witness ==
    /\ pc = "validated"
    /\ ret = TRUE
    /\ Len(CurPaths) >= 2
    /\ HasKey(Dict(CurPaths), S_home)
    /\ \A n \in 1..Len(CurPaths) : Exempt(CurPaths[n])
    /\ \E n \in 1..Len(CurPaths) :
        IsStr(CurPaths[n].val) /\ CurPaths[n].val.val \notin fs \cup {EmptyStr}

---------------------------------------------------------------------------
(* C7 *)

\* C7: in store-selection mode, loading with a store selector that is not a
\* key of `paths` fails with the unknown-store value error, which names the
\* selector.
C7_UnknownStoreRaisesValueError ==
    ( /\ pc = "done"
      /\ StoreMode
      /\ "STORE" \in DOMAIN env
      /\ ~HasKey(DocPaths, env["STORE"]) ) =>
        /\ status = "raised"
        /\ exc.type = "ValueError"
        /\ exc.key = env["STORE"]

---------------------------------------------------------------------------
(* C8 *)

\* C8: in store-selection mode with the store selector unset, load_config
\* takes the PathGroup stored under `lustre`, expands nothing, validates it
\* and returns the document with `paths` equal to that group.
C8_DefaultStoreSelected ==
    ( /\ pc = "done"
      /\ StoreMode
      /\ "STORE" \notin DOMAIN env
      /\ HasKey(DocPaths, S_lustre)
      /\ MissingAt(Get(DocPaths, S_lustre).val) = {} ) =>
        /\ status = "returned"
        /\ built = << >>
        /\ IsDict(result) /\ HasKey(result, S_paths)
        /\ Get(result, S_paths) = Get(DocPaths, S_lustre)

---------------------------------------------------------------------------
(* C9 *)

\* C9: loading a mapping document that has no `paths` entry fails with a
\* KeyError for "paths", and it fails before _build_paths computes a base
\* directory or rewrites an entry and before any os.path.exists call.
C9_MissingPathsRaisesKeyError ==
    (HasDoc /\ ~HasKey(Doc, S_paths)) =>
        /\ pc \notin {"build", "check", "validated"}
        /\ base_path = None
        /\ built = << >>
        /\ checked = << >>
        /\ pc = "done" =>
            /\ status = "raised"
            /\ exc = Raise("KeyError", S_paths, EmptyStr)

\* a document with other entries and no `paths` was loaded and raised
C9_Witness ==
    /\ pc = "done"
    /\ HasDoc
    /\ Doc.val # << >>
    /\ ~HasKey(Doc, S_paths)
    /\ exc.type = "KeyError"

---------------------------------------------------------------------------
(* C10 *)

\* C10: a successful load_config changes only the `paths` entry: the returned
\* mapping has the top-level keys of the parsed document, in its order, and
\* every entry other than `paths` is the entry safe_load produced.
C10_OnlyPathsReplaced ==
    status = "returned" =>
        /\ IsDict(result)
        /\ Keys(result) = Keys(Doc)
        /\ \A n \in 1..Len(result.val) :
            result.val[n].key # S_paths => result.val[n] = Doc.val[n]

\* a successful load that rewrote a path, of a document with another entry
C10_Witness ==
    /\ status = "returned"
    /\ built # << >>
    /\ \E n \in 1..Len(Doc.val) : Doc.val[n].key # S_paths
    /\ Get(result, S_paths) # DocPaths

---------------------------------------------------------------------------
(* C11 *)

\* the place of key k in the entries es
PosOf(es, k) == CHOOSE n \in 1..Len(es) : es[n].key = k
\* a flat-mode document that holds a `dir_output` entry
HasDirOutput == FlatMode /\ HasKey(DocPaths, S_dir_output)
\* the value the document gives `dir_output`
DirOutputValue == Get(DocPaths, S_dir_output).val

\* C11 as stated: for every flat-mode document and base directory,
\* load_config returns `dir_output` with its original value when that value
\* exists on disk, and fails with the path-not-found error naming
\* `dir_output` when it does not.
C11_AsStated ==
    (pc = "done" /\ HasDirOutput) =>
        IF DirOutputValue \in fs
        THEN /\ status = "returned"
             /\ Get(Get(result, S_paths), S_dir_output) = Str(DirOutputValue)
        ELSE /\ status = "raised"
             /\ exc = Raise("FileNotFoundError", S_dir_output, DirOutputValue)

\* C11, amended: `dir_output` is never rewritten, and its existence check is
\* made on the original value, never on base + value.  load_config returns
\* it with its original value when that value and every other validated
\* entry exist; a return implies the value exists; when the value does not
\* exist the load fails with the path-not-found error, which names
\* `dir_output` and its original value unless an entry before it in the
\* mapping fails validation first.
C11_DirOutputValidatedUnexpanded ==
    (HasDirOutput /\ pc \notin {"open", "lookup"}) =>
        LET pos == PosOf(DocPaths.val, S_dir_output)
        IN /\ CurPaths[pos] = DocPaths.val[pos]
           /\ S_dir_output \notin {built[m] : m \in 1..Len(built)}
           /\ (pc = "check" /\ idx > pos) =>
                /\ DirOutputValue \in fs
                /\ checked[Len(NonExemptValues(CurPaths, pos))] = DirOutputValue
           /\ pc = "done" =>
                /\ (DirOutputValue \in fs /\ MissingAt(CurPaths) = {}) =>
                        status = "returned"
                /\ status = "returned" =>
                        /\ DirOutputValue \in fs
                        /\ Get(Get(result, S_paths), S_dir_output)
                               = Str(DirOutputValue)
                /\ DirOutputValue \notin fs =>
                        /\ status = "raised"
                        /\ exc.type = "FileNotFoundError"
                        /\ (\A n \in MissingAt(CurPaths) : pos <= n) =>
                              exc = Raise("FileNotFoundError", S_dir_output,
                                          DirOutputValue)

\* the load failed naming `dir_output` with its original value although
\* base + value is on disk
C11_Witness ==
    /\ pc = "done"
    /\ HasDirOutput
    /\ base_path.val # EmptyStr
    /\ DirOutputValue \notin fs
    /\ (base_path.val \o DirOutputValue) \in fs
    /\ exc = Raise("FileNotFoundError", S_dir_output, DirOutputValue)

---------------------------------------------------------------------------
(* C12 *)

\* the positions of the entries of the document that expansion rewrites
Expandable == {n \in 1..Len(DocPaths.val) : ~Unexpanded(DocPaths.val[n])}
\* base + fragment for the entry at position n of the document
Expanded(n) == base_path.val \o DocPaths.val[n].val.val
\* the document's group with base + fragment in every rewritten entry
ExpectedPaths ==
    [n \in 1..Len(DocPaths.val) |->
        IF n \in Expandable
        THEN Entry(DocPaths.val[n].key, Str(Expanded(n)))
        ELSE DocPaths.val[n]]
\* `home`, when the document has a non-empty one, is on disk
HomeExists ==
    (HasKey(DocPaths, S_home) /\ Get(DocPaths, S_home).val # EmptyStr)
        => Get(DocPaths, S_home).val \in fs

\* C12 as stated: a flat-mode load succeeds with every expanded value equal
\* to base + fragment when all those concatenations and a non-empty `home`
\* exist, and fails with the path-not-found error when some base + fragment
\* does not exist.
C12_AsStated ==
    (pc = "done" /\ FlatMode) =>
        /\ ((\A n \in Expandable : Expanded(n) \in fs) /\ HomeExists) =>
            /\ status = "returned"
            /\ \A n \in Expandable :
                Get(result, S_paths).val[n].val = Str(Expanded(n))
        /\ (\E n \in Expandable : Expanded(n) \notin fs) =>
            status = "raised" /\ exc.type = "FileNotFoundError"

\* C12, amended: load_config expands before it validates.  While the
\* validator runs, the paths it has asked the disk about are the values of
\* the expanded group, base + fragment for every rewritten key, in order.  A
\* flat-mode load succeeds, returning base + fragment in every rewritten
\* entry, when all those concatenations, a non-empty `home` and `dir_output`,
\* if the group has one, exist; it fails with the path-not-found error when
\* some base + fragment does not exist, even if the raw fragment does, and
\* an error that names a rewritten key carries base + fragment.
C12_ExpandsBeforeValidating ==
    /\ (pc = "check" /\ FlatMode) =>
        /\ CurPaths = ExpectedPaths
        /\ checked = NonExemptValues(ExpectedPaths, idx - 1)
    /\ (pc = "done" /\ FlatMode) =>
        /\ ( /\ \A n \in Expandable : Expanded(n) \in fs
             /\ HomeExists
             /\ HasKey(DocPaths, S_dir_output) => DirOutputValue \in fs ) =>
            /\ status = "returned"
            /\ Get(result, S_paths).val = ExpectedPaths
        /\ (\E n \in Expandable : Expanded(n) \notin fs) =>
            status = "raised" /\ exc.type = "FileNotFoundError"
        /\ \A n \in Expandable :
            (status = "raised" /\ exc.key = DocPaths.val[n].key) =>
                exc.path = Expanded(n)

\* the load failed at base + fragment although the raw fragment is on disk
C12_Witness ==
    /\ pc = "done"
    /\ FlatMode
    /\ base_path.val # EmptyStr
    /\ \E n \in Expandable :
        /\ DocPaths.val[n].val.val \in fs
        /\ Expanded(n) \notin fs
        /\ exc = Raise("FileNotFoundError", DocPaths.val[n].key, Expanded(n))

====
